---- MODULE Spec2Model ----
(***************************************************************************)
(* Model of the product proxy server: getAll (bounded retry with a        *)
(* per-attempt abort timer), filterProducts (sequential narrowing passes   *)
(* over the fetched list) and the GET /api/products handlers of the two    *)
(* server files (src/index.js, src/unnamed/part_000).                      *)
(*                                                                         *)
(* JavaScript values are tagged records: [t |-> "undef"], strings          *)
(* [t |-> "str", v |-> <<chars>>], numbers [t |-> "num", v |-> n], arrays  *)
(* [t |-> "arr", v |-> <<values>>] and plain objects [t |-> "obj"].        *)
(* A string is a sequence of one-character strings.                        *)
(***************************************************************************)
EXTENDS Integers, Sequences, FiniteSets, TLC

VARIABLES
    server,        \* which server file runs: "index" or "part_000"
    query,         \* req.query of the inbound request
    pc,            \* position of the request inside handler / getAll
    attempt,       \* loop variable `attempt` of getAll
    timers,        \* attempts whose abort timer (timeoutId) is armed
    issued,        \* number of upstream requests issued so far
    outcomes,      \* outcome of every finished attempt, in order
    payload,       \* parsed body of the attempt that succeeded, if any
    settled,       \* getAll's promise: "pending", "fulfilled" or "rejected"
    products,      \* value getAll resolved with
    result,        \* outcome of filterProducts(products, query)
    second,        \* outcome of filtering `result` again with the same query
    response       \* HTTP response of the handler

vars == <<server, query, pc, attempt, timers, issued, outcomes,
          payload, settled, products, result, second, response>>

-----------------------------------------------------------------------------
(* Program constants *)

\* mutant: one retry too many
FETCH_RETRIES_OneMore == 2 + 1

FETCH_RETRIES == 2

-----------------------------------------------------------------------------
(* Bounds of the model *)

\* longest product list the filter is applied to
MaxProducts == 2

\* number of getAll calls running concurrently
NumCalls == 2

-----------------------------------------------------------------------------
(* JavaScript values *)

Undef == [t |-> "undef"]
Str(s) == [t |-> "str", v |-> s]
Num(n) == [t |-> "num", v |-> n]
Arr(s) == [t |-> "arr", v |-> s]
Obj == [t |-> "obj"]
Null == [t |-> "null"]

\* ToBoolean: undefined, null, "" and 0 are falsy; arrays and objects are
\* truthy
Truthy(x) ==
    CASE x.t = "undef" -> FALSE
      [] x.t = "null" -> FALSE
      [] x.t = "str" -> x.v # <<>>
      [] x.t = "num" -> x.v # 0
      [] OTHER -> TRUE

IsSpace(c) == c = " "
IsDigit(c) == c \in {"0", "1", "2", "3", "4", "5", "6", "7", "8", "9"}
DigitVal(c) ==
    CASE c = "0" -> 0 [] c = "1" -> 1 [] c = "2" -> 2 [] c = "3" -> 3
      [] c = "4" -> 4 [] c = "5" -> 5 [] c = "6" -> 6 [] c = "7" -> 7
      [] c = "8" -> 8 [] c = "9" -> 9

LowerChar(c) ==
    CASE c = "A" -> "a" [] c = "B" -> "b" [] c = "S" -> "s" [] c = "H" -> "h"
      [] c = "O" -> "o" [] OTHER -> c

\* String.prototype.toLowerCase
toLowerCase(s) == [i \in DOMAIN s |-> LowerChar(s[i])]

RECURSIVE TrimStart(_)
TrimStart(s) ==
    IF s # <<>> /\ IsSpace(Head(s)) THEN TrimStart(Tail(s)) ELSE s

RECURSIVE TrimEnd(_)
TrimEnd(s) ==
    IF s # <<>> /\ IsSpace(s[Len(s)]) THEN TrimEnd(SubSeq(s, 1, Len(s) - 1))
    ELSE s

\* String.prototype.trim
trim(s) == TrimEnd(TrimStart(s))

\* String.prototype.includes
includes(s, sub) ==
    \E i \in 0..(Len(s) - Len(sub)) : SubSeq(s, i + 1, i + Len(sub)) = sub

\* Array.prototype.join(",") of an array of strings, as String(array) does
RECURSIVE JoinComma(_)
JoinComma(a) ==
    IF a = <<>> THEN <<>>
    ELSE IF Len(a) = 1 THEN a[1].v
    ELSE a[1].v \o <<",">> \o JoinComma(Tail(a))

\* ToString of a query value
ToStringJS(x) ==
    CASE x.t = "str" -> x.v
      [] x.t = "arr" -> JoinComma(x.v)
      [] OTHER -> <<"[", "o", "b", "j", "e", "c", "t", "]">>

RECURSIVE DigitPrefix(_)
DigitPrefix(s) ==
    IF s # <<>> /\ IsDigit(Head(s)) THEN <<Head(s)>> \o DigitPrefix(Tail(s))
    ELSE <<>>

RECURSIVE DigitsValue(_)
DigitsValue(d) ==
    IF d = <<>> THEN 0
    ELSE 10 * DigitsValue(SubSeq(d, 1, Len(d) - 1)) + DigitVal(d[Len(d)])

NaN == [t |-> "nan"]

\* parseFloat: leading white space is skipped, the longest numeric prefix is
\* converted and whatever follows it is dropped; no numeric prefix gives NaN.
\* (Strings here are made of digits, letters, spaces and commas, so the
\* numeric prefix is a run of digits.)
parseFloat(x) ==
    LET d == DigitPrefix(TrimStart(ToStringJS(x)))
    IN  IF d = <<>> THEN NaN ELSE Num(DigitsValue(d))

isNaN(n) == n.t = "nan"

-----------------------------------------------------------------------------
(* filterProducts *)

\* outcome of a call: the list it returned, or a raised TypeError
Returned(l) == [raised |-> FALSE, list |-> l]
Raised == [raised |-> TRUE, list |-> <<>>]
NotRun == [raised |-> FALSE, list |-> <<>>, run |-> FALSE]

Product(ti, sl, pr) == [t |-> "product", title |-> ti, slug |-> sl, price |-> pr]

\* (p.title || '') and (p.slug || '')
OrEmpty(x) == IF Truthy(x) THEN x ELSE Str(<<>>)

\* (p.price ?? 0), for prices that are numbers or absent
PriceOrZero(p) == IF p.price.t = "num" THEN p.price.v ELSE 0

\* mutant: only the first matching record is kept (find instead of filter)
TitlePass_FirstOnly(r, q) ==
    IF r.raised \/ ~Truthy(q.title) THEN r
    ELSE IF q.title.t # "str" THEN Raised
    ELSE IF trim(q.title.v) = <<>> THEN r
    ELSE LET titleLower == toLowerCase(trim(q.title.v))
             Throws(p) == OrEmpty(p.title).t # "str"
             Keep(p) == includes(toLowerCase(OrEmpty(p.title).v), titleLower)
             kept == SelectSeq(r.list, Keep)
         IN  IF \E i \in DOMAIN r.list : Throws(r.list[i]) THEN Raised
             ELSE Returned(IF kept = <<>> THEN <<>> ELSE <<Head(kept)>>)

\* lines 80-85
TitlePass(r, q) ==
    IF r.raised \/ ~Truthy(q.title) THEN r
    ELSE IF q.title.t # "str" THEN Raised        \* query.title.trim is not a function
    ELSE IF trim(q.title.v) = <<>> THEN r
    ELSE LET titleLower == toLowerCase(trim(q.title.v))
             Throws(p) == OrEmpty(p.title).t # "str"  \* .toLowerCase is not a function
             Keep(p) == includes(toLowerCase(OrEmpty(p.title).v), titleLower)
         IN  IF \E i \in DOMAIN r.list : Throws(r.list[i]) THEN Raised
             ELSE Returned(SelectSeq(r.list, Keep))

\* mutant: a white-space-only slug is not skipped
SlugPass_NoBlankTest(r, q) ==
    IF r.raised \/ ~Truthy(q.slug) THEN r
    ELSE IF q.slug.t # "str" THEN Raised
    ELSE LET slugVal == trim(q.slug.v)
             Keep(p) == OrEmpty(p.slug) = Str(slugVal)
         IN  Returned(SelectSeq(r.list, Keep))

\* lines 88-91
SlugPass(r, q) ==
    IF r.raised \/ ~Truthy(q.slug) THEN r
    ELSE IF q.slug.t # "str" THEN Raised         \* query.slug.trim is not a function
    ELSE IF trim(q.slug.v) = <<>> THEN r
    ELSE LET slugVal == trim(q.slug.v)
             Keep(p) == OrEmpty(p.slug) = Str(slugVal)
         IN  Returned(SelectSeq(r.list, Keep))

\* query.minPrice != null && query.minPrice !== ''
PriceGiven(x) == x.t # "undef" /\ x # Str(<<>>)

\* mutant: exclusive lower bound
MinPricePass_Exclusive(r, q) ==
    IF r.raised \/ ~PriceGiven(q.minPrice) THEN r
    ELSE LET min == parseFloat(q.minPrice)
             Keep(p) == PriceOrZero(p) > min.v
         IN  IF isNaN(min) THEN r ELSE Returned(SelectSeq(r.list, Keep))

\* lines 94-99
MinPricePass(r, q) ==
    IF r.raised \/ ~PriceGiven(q.minPrice) THEN r
    ELSE LET min == parseFloat(q.minPrice)
             Keep(p) == PriceOrZero(p) >= min.v
         IN  IF isNaN(min) THEN r ELSE Returned(SelectSeq(r.list, Keep))

\* lines 102-107
MaxPricePass(r, q) ==
    IF r.raised \/ ~PriceGiven(q.maxPrice) THEN r
    ELSE LET max == parseFloat(q.maxPrice)
             Keep(p) == PriceOrZero(p) <= max.v
         IN  IF isNaN(max) THEN r ELSE Returned(SelectSeq(r.list, Keep))

\* mutant: the copy loses the first record, products.slice(1)
SpreadCopy_SkipFirst(ps) ==
    IF ps.t # "arr" THEN Raised
    ELSE IF ps.v = <<>> THEN Returned(<<>>)
    ELSE Returned(Tail(ps.v))

\* let result = [...products]: spreading a value that is not iterable throws
SpreadCopy(ps) == IF ps.t = "arr" THEN Returned(ps.v) ELSE Raised

filterProducts(ps, q) ==
    MaxPricePass(MinPricePass(SlugPass(TitlePass(SpreadCopy(ps), q), q), q), q)

\* mutant: the passes remove the rejected records from the caller's array
ArgsAfterCall_InPlace(ps, q) ==
    [products |-> IF filterProducts(ps, q).raised THEN ps
                  ELSE Arr(filterProducts(ps, q).list),
     query |-> q]

\* lines 77-109: what the call leaves in its two arguments. Every pass
\* assigns a new array to the local `result`; nothing writes to `products`
\* or to `query`.
ArgsAfterCall(ps, q) == [products |-> ps, query |-> q]

-----------------------------------------------------------------------------
(* Inputs: the products the upstream serves and the query strings *)

P1 == Product(Str(<<"A", "b">>), Str(<<"a">>), Num(1))
P2 == Product(Str(<<"b">>), Str(<<" ", "a">>), Num(2))
P3 == Product(Undef, Undef, Undef)
P4 == Product(Str(<<"B">>), Str(<<"b">>), Num(0))
\* a record whose title is not text (the upstream's shape is not validated)
PBad == Product(Num(5), Undef, Undef)

Catalog == {P1, P2, P3, P4}

\* repeated parameter, ?title=a&title=b
Repeated == Arr(<<Str(<<"a">>), Str(<<"b">>)>>)

TitleQueries ==
    {Undef, Str(<<>>), Str(<<" ">>), Str(<<"a">>), Str(<<" ", "B", " ">>),
     Str(<<"a", "B">>), Repeated}

SlugQueries == {Undef, Str(<<" ">>), Str(<<"a">>), Str(<<" ", "a">>), Repeated}

PriceQueries ==
    {Undef, Str(<<>>), Str(<<" ">>), Str(<<"1">>), Str(<<" ", "2">>),
     Str(<<"x">>), Str(<<"1", "x">>)}

Query(ti, sl, mn, mx) == [title |-> ti, slug |-> sl, minPrice |-> mn, maxPrice |-> mx]

Queries ==
    {Query(ti, sl, mn, mx) : ti \in TitleQueries, sl \in SlugQueries,
                             mn \in PriceQueries, mx \in PriceQueries}

ListsUpTo(n) == UNION {[1..k -> Catalog] : k \in 0..n}

\* query strings of the requests sent to the running server
HandlerQueries ==
    {Query(Undef, Undef, Undef, Undef),
     Query(Str(<<"a">>), Undef, Str(<<"1">>), Undef),
     Query(Repeated, Undef, Undef, Undef),
     Query(Undef, Obj, Undef, Str(<<"x">>))}

\* parsed JSON bodies the upstream may answer with
Payloads == {Arr(<<P1, P2, P3>>), Arr(<<>>), Arr(<<P1, PBad>>), Obj}

NoResponse == [status |-> 0]

-----------------------------------------------------------------------------
(* getAll and the handlers of GET /api/products *)

Failures == {"network", "abort", "http", "parse"}

\* mutant: one retry too few
ShouldRetry_OneLess(att) == att < FETCH_RETRIES

\* mutant: a retry is scheduled after the last attempt too
ShouldRetry_Always(att) == att <= FETCH_RETRIES + 1

\* line 41: if (attempt <= FETCH_RETRIES)
ShouldRetry(att) == att <= FETCH_RETRIES

\* line 19: attempt <= FETCH_RETRIES + 1
LoopContinues(att) == att <= FETCH_RETRIES + 1

\* mutant: null instead of the empty list once the retries are exhausted
OnExhausted_Null == [settled |-> "fulfilled", value |-> Undef]

\* mutant: the last error is rethrown once the retries are exhausted
OnExhausted_Rethrow == [settled |-> "rejected", value |-> Undef]

\* line 47: return []
OnExhausted == [settled |-> "fulfilled", value |-> Arr(<<>>)]

\* line 33: return await response.json()
ReturnParsed(body) == [settled |-> "fulfilled", value |-> body]

\* mutant: the timer is left armed
ClearTimer_Forgotten(ts, k) == ts

\* lines 28 and 35: clearTimeout(timeoutId)
ClearTimer(ts, k) == ts \ {k}

\* the abort timer of the current attempt is armed
timerPending == attempt \in timers

Init ==
    /\ server \in {"index", "part_000"}
    /\ query \in HandlerQueries
    /\ pc = "loop"
    /\ attempt = 1
    /\ timers = {}
    /\ issued = 0
    /\ outcomes = <<>>
    /\ payload = Undef
    /\ settled = "pending"
    /\ products = Undef
    /\ result = NotRun
    /\ second = NotRun
    /\ response = NoResponse

\* lines 20-27: new controller, arm the abort timer, issue the request
StartAttempt ==
    /\ pc = "loop"
    /\ LoopContinues(attempt)
    /\ timers' = timers \cup {attempt}
    /\ issued' = issued + 1
    /\ pc' = "fetch"
    /\ UNCHANGED <<server, query, attempt, outcomes, payload, settled,
                   products, result, second, response>>

\* getAll's promise settles and the handler resumes
Settle(s) ==
    /\ settled' = s.settled
    /\ products' = s.value
    /\ pc' = "handler"

\* lines 34-48: the catch block
Catch(kind) ==
    /\ timers' = ClearTimer(timers, attempt)
    /\ outcomes' = Append(outcomes, kind)
    /\ IF ShouldRetry(attempt)
       THEN pc' = "delay" /\ UNCHANGED <<settled, products>>
       ELSE Settle(OnExhausted)
    /\ UNCHANGED <<server, query, attempt, issued, payload, result, second,
                   response>>

\* fetch rejects: connection error
NetworkError == pc = "fetch" /\ Catch("network")

\* line 21: an armed timer fires and aborts the controller of its attempt;
\* that rejects the attempt's request if it is still being awaited, and does
\* nothing to any other request
Timeout ==
    \E k \in timers :
        IF k = attempt /\ pc \in {"fetch", "json"}
        THEN Catch("abort")
        ELSE /\ timers' = timers \ {k}
             /\ UNCHANGED <<server, query, pc, attempt, issued, outcomes,
                            payload, settled, products, result, second,
                            response>>

\* lines 28-32: headers of a non-2xx response arrive
ResponseNotOk == pc = "fetch" /\ Catch("http")

\* lines 28-33: headers of a 2xx response arrive; the timer is cleared and
\* response.json() starts reading the body
ResponseOk ==
    /\ pc = "fetch"
    /\ timers' = ClearTimer(timers, attempt)
    /\ pc' = "json"
    /\ UNCHANGED <<server, query, attempt, issued, outcomes, payload, settled,
                   products, result, second, response>>

\* line 33: the body arrives and parses
BodyParsed ==
    /\ pc = "json"
    /\ \E body \in Payloads :
          /\ payload' = body
          /\ Settle(ReturnParsed(body))
    /\ outcomes' = Append(outcomes, "ok")
    /\ UNCHANGED <<server, query, attempt, timers, issued, result,
                   second, response>>

\* mutant: `return response.json()` without await, the rejection is not
\* caught by the try block and getAll rejects
BodyFails_Escapes ==
    /\ pc = "json"
    /\ settled' = "rejected"
    /\ products' = Undef
    /\ pc' = "handler"
    /\ UNCHANGED <<server, query, attempt, timers, issued, outcomes, payload,
                   result, second, response>>

\* line 33: response.json() rejects (invalid JSON, connection lost)
BodyFails == pc = "json" /\ Catch("parse")

\* lines 43-44 and 19: the 2000 ms wait ends, attempt++ and the loop test;
\* line 50 when the loop ends
DelayElapsed ==
    /\ pc = "delay"
    /\ attempt' = attempt + 1
    /\ IF LoopContinues(attempt + 1)
       THEN pc' = "loop" /\ UNCHANGED <<settled, products>>
       ELSE Settle([settled |-> "fulfilled", value |-> Arr(<<>>)])
    /\ UNCHANGED <<server, query, timers, issued, outcomes, payload,
                   result, second, response>>

\* src/index.js lines 55-56: res.json(products)
RespondUnfiltered ==
    /\ pc = "handler" /\ server = "index" /\ settled = "fulfilled"
    /\ response' = [status |-> 200, body |-> products]
    /\ pc' = "responded"
    /\ UNCHANGED <<server, query, attempt, timers, issued, outcomes,
                   payload, settled, products, result, second>>

\* mutant: the handler answers with the fetched list as it is
RespondFiltered_Unfiltered ==
    /\ pc = "handler" /\ server = "part_000" /\ settled = "fulfilled"
    /\ response' = [status |-> 200, body |-> products]
    /\ pc' = "responded"
    /\ UNCHANGED <<server, query, attempt, timers, issued, outcomes,
                   payload, settled, products, result, second>>

\* part_000 lines 114-116: res.json(filterProducts(products, req.query))
RespondFiltered ==
    /\ pc = "handler" /\ server = "part_000" /\ settled = "fulfilled"
    /\ ~filterProducts(products, query).raised
    /\ result' = filterProducts(products, query)
    /\ response' = [status |-> 200, body |-> Arr(result'.list)]
    /\ pc' = "responded"
    /\ UNCHANGED <<server, query, attempt, timers, issued, outcomes,
                   payload, settled, products, second>>

\* part_000 line 115: filterProducts throws, the async handler rejects and
\* res.json is never reached. The framework either leaves the request
\* unanswered (the rejection is unhandled) or answers 500 through its error
\* handler, depending on its version.
HandlerThrows ==
    /\ pc = "handler" /\ server = "part_000" /\ settled = "fulfilled"
    /\ filterProducts(products, query).raised
    /\ result' = Raised
    /\ response' \in {NoResponse, [status |-> 500, body |-> Obj]}
    /\ pc' = "failed"
    /\ UNCHANGED <<server, query, attempt, timers, issued, outcomes,
                   payload, settled, products, second>>

Next ==
    \/ StartAttempt
    \/ NetworkError
    \/ Timeout
    \/ ResponseNotOk
    \/ ResponseOk
    \/ BodyParsed
    \/ BodyFails
    \/ DelayElapsed
    \/ RespondUnfiltered
    \/ RespondFiltered
    \/ HandlerThrows

Spec == Init /\ [][Next]_vars

-----------------------------------------------------------------------------
(* filterProducts on its own: the inputs are drawn from the sets above *)

FilterInit ==
    /\ server = "part_000"
    /\ query \in Queries
    /\ products \in {Arr(l) : l \in ListsUpTo(MaxProducts)}
    /\ payload = products
    /\ pc = "filter"
    /\ attempt = 1
    /\ timers = {}
    /\ issued = 1
    /\ outcomes = <<"ok">>
    /\ settled = "fulfilled"
    /\ result = NotRun
    /\ second = NotRun
    /\ response = NoResponse

\* part_000 line 115: filterProducts(products, req.query)
Filter ==
    /\ pc = "filter"
    /\ result' = filterProducts(products, query)
    /\ products' = ArgsAfterCall(products, query).products
    /\ query' = ArgsAfterCall(products, query).query
    /\ pc' = "filtered"
    /\ UNCHANGED <<server, attempt, timers, issued, outcomes, payload,
                   settled, second, response>>

\* filterProducts applied to its own result with the same constraints
FilterAgain ==
    /\ pc = "filtered"
    /\ second' = IF result.raised THEN Raised
                 ELSE filterProducts(Arr(result.list), query)
    /\ pc' = "refiltered"
    /\ UNCHANGED <<server, query, attempt, timers, issued, outcomes,
                   payload, settled, products, result, response>>

FilterNext == Filter \/ FilterAgain

FilterSpec == FilterInit /\ [][FilterNext]_vars

-----------------------------------------------------------------------------
(* Concurrent getAll calls.  Every request handler calls getAll on its own;  *)
(* attempt, controller and timeoutId are locals of the call, so each variable *)
(* of the single call becomes a function of the call here.  A call's log      *)
(* tells a timeout ("abort") from a failure of the request itself ("error":   *)
(* fetch rejects, non-2xx status, body that does not parse).                  *)

Calls == 1..NumCalls

ConcPayloads == {Arr(<<P1>>), Arr(<<>>)}

\* mutant: one controller shared by all calls (module-level instead of a
\* local of the attempt)
AbortTargets_Shared(c) == Calls

\* lines 20-21: the timer aborts the controller created by the same attempt
\* of the same call
AbortTargets(c) == {c}

ConcInit ==
    /\ server = "part_000"
    /\ query = Query(Undef, Undef, Undef, Undef)
    /\ pc = [c \in Calls |-> "loop"]
    /\ attempt = [c \in Calls |-> 1]
    /\ timers = [c \in Calls |-> {}]
    /\ issued = [c \in Calls |-> 0]
    /\ outcomes = [c \in Calls |-> <<>>]
    /\ payload = [c \in Calls |-> Undef]
    /\ settled = [c \in Calls |-> "pending"]
    /\ products = [c \in Calls |-> Undef]
    /\ result = NotRun
    /\ second = NotRun
    /\ response = NoResponse

\* lines 20-27 in call c
ConcStart(c) ==
    /\ pc[c] = "loop"
    /\ LoopContinues(attempt[c])
    /\ timers' = [timers EXCEPT ![c] = @ \cup {attempt[c]}]
    /\ issued' = [issued EXCEPT ![c] = @ + 1]
    /\ pc' = [pc EXCEPT ![c] = "fetch"]
    /\ UNCHANGED <<server, query, attempt, outcomes, payload, settled,
                   products, result, second, response>>

\* lines 34-48: the catch block runs in every call of `hit`
ConcCatch(hit, kind) ==
    /\ timers' = [d \in Calls |->
                    IF d \in hit THEN ClearTimer(timers[d], attempt[d])
                    ELSE timers[d]]
    /\ outcomes' = [d \in Calls |->
                      IF d \in hit THEN Append(outcomes[d], kind)
                      ELSE outcomes[d]]
    /\ pc' = [d \in Calls |->
                IF d \notin hit THEN pc[d]
                ELSE IF ShouldRetry(attempt[d]) THEN "delay" ELSE "returned"]
    /\ settled' = [d \in Calls |->
                     IF d \in hit /\ ~ShouldRetry(attempt[d])
                     THEN OnExhausted.settled ELSE settled[d]]
    /\ products' = [d \in Calls |->
                      IF d \in hit /\ ~ShouldRetry(attempt[d])
                      THEN OnExhausted.value ELSE products[d]]
    /\ UNCHANGED <<server, query, attempt, issued, payload, result, second,
                   response>>

\* the request of call c fails by itself: fetch rejects, the status is not
\* 2xx (lines 30-32) or response.json() rejects (line 33)
ConcFails(c) ==
    /\ pc[c] \in {"fetch", "json"}
    /\ ConcCatch({c}, "error")

\* line 21: the timer of call c fires and aborts the requests awaited on its
\* controller
ConcTimeout(c) ==
    /\ pc[c] = "fetch"
    /\ attempt[c] \in timers[c]
    /\ ConcCatch({d \in AbortTargets(c) : pc[d] = "fetch"}, "abort")

\* lines 28-33 in call c: 2xx headers arrive, the timer is cleared
ConcResponseOk(c) ==
    /\ pc[c] = "fetch"
    /\ timers' = [timers EXCEPT ![c] = ClearTimer(@, attempt[c])]
    /\ pc' = [pc EXCEPT ![c] = "json"]
    /\ UNCHANGED <<server, query, attempt, issued, outcomes, payload, settled,
                   products, result, second, response>>

\* line 33 in call c: the body parses and the call returns it
ConcBodyParsed(c) ==
    /\ pc[c] = "json"
    /\ \E body \in ConcPayloads :
          /\ payload' = [payload EXCEPT ![c] = body]
          /\ settled' = [settled EXCEPT ![c] = ReturnParsed(body).settled]
          /\ products' = [products EXCEPT ![c] = ReturnParsed(body).value]
    /\ outcomes' = [outcomes EXCEPT ![c] = Append(@, "ok")]
    /\ pc' = [pc EXCEPT ![c] = "returned"]
    /\ UNCHANGED <<server, query, attempt, timers, issued, result, second,
                   response>>

\* lines 43-44 and 19 in call c
ConcDelayElapsed(c) ==
    /\ pc[c] = "delay"
    /\ attempt' = [attempt EXCEPT ![c] = @ + 1]
    /\ IF LoopContinues(attempt[c] + 1)
       THEN /\ pc' = [pc EXCEPT ![c] = "loop"]
            /\ UNCHANGED <<settled, products>>
       ELSE /\ pc' = [pc EXCEPT ![c] = "returned"]
            /\ settled' = [settled EXCEPT ![c] = "fulfilled"]
            /\ products' = [products EXCEPT ![c] = Arr(<<>>)]
    /\ UNCHANGED <<server, query, timers, issued, outcomes, payload, result,
                   second, response>>

ConcNext ==
    \E c \in Calls :
        \/ ConcStart(c)
        \/ ConcFails(c)
        \/ ConcTimeout(c)
        \/ ConcResponseOk(c)
        \/ ConcBodyParsed(c)
        \/ ConcDelayElapsed(c)

ConcSpec == ConcInit /\ [][ConcNext]_vars

\* everything call c owns
CallState(c) ==
    <<pc[c], attempt[c], timers[c], issued[c], outcomes[c], payload[c],
      settled[c], products[c]>>

\* C14: in every interleaving each call issues at most 3 requests, its
\* result is decided by its own attempts alone (the body its own last attempt
\* parsed, or the empty list after 3 failures of its own), and every step,
\* a timeout included, changes the state of one call only.
C14_CallsIndependent ==
    /\ [](\A c \in Calls :
            /\ issued[c] <= 3
            /\ issued[c] = Len(outcomes[c])
                              + (IF pc[c] \in {"fetch", "json"} THEN 1 ELSE 0)
            /\ settled[c] # "rejected"
            /\ settled[c] = "fulfilled" =>
                  IF outcomes[c][Len(outcomes[c])] = "ok"
                  THEN products[c] = payload[c]
                  ELSE Len(outcomes[c]) = 3 /\ products[c] = Arr(<<>>))
    /\ [][\A c, d \in Calls :
            (c # d /\ CallState(c)' # CallState(c)) =>
                CallState(d)' = CallState(d)]_vars

C14_Witness ==
    /\ outcomes[1] = <<"abort">> /\ pc[1] = "delay"
    /\ pc[2] = "fetch" /\ attempt[2] = 1 /\ timers[2] = {1}


\* req.params.id
Ids ==
    {Str(<<"1">>), Str(<<"2">>), Str(<<"1", "2">>), Str(<<"0">>), Str(<<"x">>),
     Str(<<"a", "b">>)}

\* parsed JSON bodies the upstream may answer a single-item request with
ByIdPayloads == {P1, P2, PBad, Null, Num(0), Arr(<<>>), Obj}

\* mutant: the error is rethrown
ByIdOnError_Rethrow == [settled |-> "rejected", value |-> Undef]

\* lines 63 and 67: return null
ByIdOnError == [settled |-> "fulfilled", value |-> Null]

\* mutant: every fetched value is served
NotFound_Never(product) == FALSE

\* line 123: if (!product)
NotFound(product) == ~Truthy(product)

\* line 124: { error: 'Sản phẩm không tồn tại' }
ErrorBody == [t |-> "obj", error |-> "not found"]

ByIdInit ==
    /\ server = "part_000"
    /\ query \in {[id |-> i] : i \in Ids}
    /\ pc = "byId"
    /\ attempt = 1
    /\ timers = {}
    /\ issued = 0
    /\ outcomes = <<>>
    /\ payload = Undef
    /\ settled = "pending"
    /\ products = Undef
    /\ result = NotRun
    /\ second = NotRun
    /\ response = NoResponse

\* lines 60-62: the request is issued
ByIdFetch ==
    /\ pc = "byId"
    /\ issued' = issued + 1
    /\ pc' = "byIdFetch"
    /\ UNCHANGED <<server, query, attempt, timers, outcomes, payload, settled,
                   products, result, second, response>>

\* getById returns and the handler resumes at line 123
ByIdReturn(kind, s) ==
    /\ outcomes' = Append(outcomes, kind)
    /\ settled' = s.settled
    /\ products' = s.value
    /\ pc' = "byIdHandler"
    /\ UNCHANGED <<server, query, attempt, timers, issued, result, second,
                   response>>

\* lines 65-67: fetch rejects
ByIdNetworkError ==
    pc = "byIdFetch" /\ ByIdReturn("network", ByIdOnError) /\ UNCHANGED payload

\* line 63: if (!response.ok) return null
ByIdNotOk ==
    pc = "byIdFetch" /\ ByIdReturn("http", ByIdOnError) /\ UNCHANGED payload

\* line 64: a 2xx response arrives, response.json() starts reading the body
ByIdResponseOk ==
    /\ pc = "byIdFetch"
    /\ pc' = "byIdJson"
    /\ UNCHANGED <<server, query, attempt, timers, issued, outcomes, payload,
                   settled, products, result, second, response>>

\* line 64: the body parses
ByIdParsed ==
    /\ pc = "byIdJson"
    /\ \E body \in ByIdPayloads :
          /\ payload' = body
          /\ ByIdReturn("ok", ReturnParsed(body))

\* lines 64-67: response.json() rejects
ByIdBodyFails ==
    pc = "byIdJson" /\ ByIdReturn("parse", ByIdOnError) /\ UNCHANGED payload

\* lines 122-126
ByIdRespond ==
    /\ pc = "byIdHandler" /\ settled = "fulfilled"
    /\ response' = IF NotFound(products)
                   THEN [status |-> 404, body |-> ErrorBody]
                   ELSE [status |-> 200, body |-> products]
    /\ pc' = "responded"
    /\ UNCHANGED <<server, query, attempt, timers, issued, outcomes, payload,
                   settled, products, result, second>>

ByIdNext ==
    \/ ByIdFetch
    \/ ByIdNetworkError
    \/ ByIdNotOk
    \/ ByIdResponseOk
    \/ ByIdParsed
    \/ ByIdBodyFails
    \/ ByIdRespond

ByIdSpec == ByIdInit /\ [][ByIdNext]_vars

\* C11: getById issues exactly one request and never a second one; it never
\* rejects; it returns null after a network error or a non-2xx status (and
\* after a body that does not parse) and the parsed body otherwise.
C11_OneRequestNullOnFailure ==
    /\ issued <= 1
    /\ pc # "byId" => issued = 1
    /\ settled # "rejected"
    /\ pc \in {"byIdHandler", "responded"} =>
          /\ settled = "fulfilled" /\ Len(outcomes) = 1
          /\ outcomes[1] \in {"network", "http", "parse"} => products = Null
          /\ outcomes[1] = "ok" => products = payload

C11_Witness ==
    pc = "byIdHandler" /\ outcomes = <<"http">> /\ issued = 1 /\ products = Null

\* C12 as stated: the response is 404 exactly when the fetch failed or was
\* answered non-2xx, and 200 with the record whenever a 2xx response parsed.
C12_NotFoundIffFetchFailed ==
    pc = "responded" =>
        /\ response.status = 404 <=> outcomes[1] \in Failures
        /\ (outcomes[1] = "ok" /\ payload.t = "product") =>
               response = [status |-> 200, body |-> payload]

\* C12 amended: the response is 404 with the error body exactly when getById
\* returned a falsy value, that is when the fetch failed, was answered
\* non-2xx, its body did not parse, or the parsed body is itself falsy (null,
\* 0); otherwise it is 200 with the parsed body.
C12_NotFoundIffFalsy ==
    pc = "responded" =>
        IF outcomes[1] \in Failures \/ ~Truthy(payload)
        THEN response = [status |-> 404, body |-> ErrorBody]
        ELSE response = [status |-> 200, body |-> payload]

C12_Witness ==
    /\ pc = "responded" /\ outcomes = <<"ok">> /\ payload = P1
    /\ response = [status |-> 200, body |-> P1]

-----------------------------------------------------------------------------
(* Properties of getAll *)

InFlight == pc \in {"fetch", "json"}
Finished == Len(outcomes)
AllFailed == \A i \in DOMAIN outcomes : outcomes[i] \in Failures

\* C1: getAll issues at most 3 upstream requests; a request is issued only
\* when every earlier attempt has finished and failed, so never while another
\* is in flight and never after an attempt has succeeded.
C1_AtMostThreeSequential ==
    /\ issued <= 3
    /\ issued = Finished + (IF InFlight THEN 1 ELSE 0)
    /\ \A i \in DOMAIN outcomes : outcomes[i] = "ok" => i = Len(outcomes)
    /\ InFlight => AllFailed

C1_Witness == issued = 3 /\ pc = "fetch" /\ Finished = 2

\* C2: when getAll returns, either the last attempt (the k-th, k <= 3)
\* succeeded after k-1 failures and the value is exactly the body parsed in
\* that attempt, or all 3 attempts failed and the value is the empty list.
C2_ReturnsPayloadOrEmpty ==
    settled = "fulfilled" =>
        /\ Finished \in 1..3
        /\ \A i \in 1..(Finished - 1) : outcomes[i] \in Failures
        /\ IF outcomes[Finished] = "ok"
           THEN products = payload
           ELSE Finished = 3 /\ products = Arr(<<>>)

C2_Witness ==
    /\ settled = "fulfilled"
    /\ outcomes = <<"http", "network", "ok">>
    /\ products = Arr(<<P1, P2, P3>>)

\* C3: getAll's promise never rejects; after three failed attempts, of
\* whatever kinds, it is fulfilled with the empty list.
C3_NeverRejects ==
    /\ settled # "rejected"
    /\ (Finished = 3 /\ AllFailed) => (settled = "fulfilled" /\ products = Arr(<<>>))

C3_Witness ==
    /\ settled = "fulfilled"
    /\ outcomes = <<"abort", "parse", "http">>
    /\ products = Arr(<<>>)

\* C4: every unfinished attempt is bounded by its abort timer, whether the
\* upstream stalls before the response arrives or while the body is read:
\* as long as the attempt is in flight its timer is armed.
C4_AttemptBoundedByTimer == InFlight => timerPending

\* C5: GET /api/products always completes with status 200 and a JSON array
\* body, whatever the upstream and the query string are.
C5_Always200Array ==
    pc \in {"responded", "failed"} =>
        response.status = 200 /\ response.body.t = "arr"

\* C13 as stated: on either server the body of the 200 response is the
\* fetched list narrowed by the query constraints.
C13_BodyFilteredEverywhere ==
    (pc = "responded" /\ ~filterProducts(products, query).raised) =>
        response.body = Arr(filterProducts(products, query).list)

\* C13 amended: every response of the part_000 server is 200 with the list
\* filterProducts returned for the fetched list and the query; every response
\* of the index.js server is 200 with the fetched list, not narrowed.
C13_BodyFilteredOnPart000 ==
    pc = "responded" =>
        IF server = "part_000"
        THEN /\ ~filterProducts(products, query).raised
             /\ response = [status |-> 200,
                            body |-> Arr(filterProducts(products, query).list)]
        ELSE response = [status |-> 200, body |-> products]

C13_Witness ==
    /\ pc = "responded" /\ server = "part_000"
    /\ products = Arr(<<P1, P2, P3>>)
    /\ query = Query(Str(<<"a">>), Undef, Str(<<"1">>), Undef)
    /\ response = [status |-> 200, body |-> Arr(<<P1>>)]

\* C15: attempts are sequential and separated by one wait each: the k-th
\* request is in flight only after k-1 waits (attempt is incremented once per
\* elapsed wait), a wait only follows a failed attempt k <= 2 with nothing in
\* flight, and after the third failure getAll returns with two waits elapsed.
C15_SequentialWithDelay ==
    /\ InFlight => (issued = attempt /\ Finished = attempt - 1)
    /\ pc = "loop" => (issued = attempt - 1 /\ Finished = attempt - 1)
    /\ pc = "delay" =>
          (attempt <= 2 /\ issued = attempt /\ Finished = attempt /\ AllFailed)
    /\ (settled = "fulfilled" /\ AllFailed) =>
          (attempt = 3 /\ issued = 3 /\ products = Arr(<<>>))

C15_Witness ==
    /\ pc = "handler" /\ settled = "fulfilled"
    /\ outcomes = <<"network", "http", "network">>
    /\ attempt = 3

\* a step in which the abort timer cancels the attempt in flight
TimedOut == outcomes' = Append(outcomes, "abort")

\* C16: a timeout in attempt k cancels that attempt only: for k <= 2 getAll
\* stays pending, waits and then starts attempt k+1; for k = 3 it returns
\* the empty list.
C16_TimeoutKeepsLoop ==
    [][/\ TimedOut =>
            /\ issued' = issued /\ attempt' = attempt
            /\ IF attempt <= 2
               THEN pc' = "delay" /\ settled' = "pending"
               ELSE settled' = "fulfilled" /\ products' = Arr(<<>>)
       /\ pc = "delay" => (pc' = "loop" /\ attempt' = attempt + 1)
       /\ pc = "loop" => (pc' = "fetch" /\ issued' = issued + 1)]_vars

C16_Witness == outcomes = <<"abort", "abort">> /\ pc = "fetch" /\ attempt = 3

\* C18: while the body of a 2xx response is read, either it parses and getAll
\* returns exactly the parsed body, or the attempt counts as failed: a wait
\* and a retry follow while attempts remain, and the empty list is returned
\* after the last attempt.
C18_UnparsableBodyIsFailure ==
    [][pc = "json" =>
          \/ /\ outcomes' = Append(outcomes, "ok")
             /\ settled' = "fulfilled"
             /\ payload' \in Payloads /\ products' = payload'
          \/ /\ outcomes' = Append(outcomes, "parse")
             /\ Len(outcomes') = issued
             /\ IF attempt <= 2
                THEN pc' = "delay" /\ settled' = "pending"
                ELSE settled' = "fulfilled" /\ products' = Arr(<<>>)]_vars

C18_Witness ==
    /\ outcomes = <<"parse", "parse", "parse">>
    /\ settled = "fulfilled" /\ products = Arr(<<>>)

\* C20: at most one abort timer is armed, it belongs to the attempt whose
\* request is awaited, and none is armed during the wait, at the loop head
\* or once getAll has returned.
C20_NoTimerLeftBehind ==
    /\ Cardinality(timers) <= 1
    /\ timers \subseteq {attempt}
    /\ pc # "fetch" => timers = {}
    /\ settled # "pending" => timers = {}

C20_Witness == pc = "fetch" /\ attempt = 2 /\ timers = {2} /\ outcomes = <<"abort">>

-----------------------------------------------------------------------------
(* Properties of filterProducts *)

Applied == pc \in {"filtered", "refiltered"}

\* a constraint field as a query string gives it when it is a single value
TextOrAbsent(x) == x.t \in {"undef", "str"}

\* absent, empty or white space only
Blank(x) == x.t = "undef" \/ (x.t = "str" /\ trim(x.v) = <<>>)

TitleOf(p) == IF p.title.t = "str" THEN p.title.v ELSE <<>>
SlugOf(p) == IF p.slug.t = "str" THEN p.slug.v ELSE <<>>
PriceOf(p) == IF p.price.t = "num" THEN p.price.v ELSE 0

\* the numeric bound a price field stands for, if it stands for one
HasBound(x) == x.t = "str" /\ ~isNaN(parseFloat(x))
Bound(x) == parseFloat(x).v

PriceSatisfied(p, q) ==
    /\ HasBound(q.minPrice) => PriceOf(p) >= Bound(q.minPrice)
    /\ HasBound(q.maxPrice) => PriceOf(p) <= Bound(q.maxPrice)

\* the record satisfies every active constraint, the query's title and slug
\* taken as they were sent
SatisfiesAsSent(p, q) ==
    /\ ~Blank(q.title) =>
           includes(toLowerCase(TitleOf(p)), toLowerCase(q.title.v))
    /\ ~Blank(q.slug) => SlugOf(p) = q.slug.v
    /\ PriceSatisfied(p, q)

\* the same, the query's title and slug taken without the white space
\* around them
SatisfiesTrimmed(p, q) ==
    /\ ~Blank(q.title) =>
           includes(toLowerCase(TitleOf(p)), toLowerCase(trim(q.title.v)))
    /\ ~Blank(q.slug) => SlugOf(p) = trim(q.slug.v)
    /\ PriceSatisfied(p, q)

\* C6: filterProducts never raises, whatever the product list and whatever
\* values the query string gives the four constraint fields.
C6_NeverRaises == Applied => ~result.raised

C8_BlankIsIdentity ==
    (Applied /\ Blank(query.title) /\ Blank(query.slug)
             /\ Blank(query.minPrice) /\ Blank(query.maxPrice)) =>
        result = Returned(products.v)

C8_Witness ==
    /\ pc = "filtered"
    /\ query = Query(Str(<<" ">>), Str(<<" ">>), Str(<<" ">>), Str(<<>>))
    /\ result = Returned(<<P2, P1>>)

\* C9: filtering the result once more with the same constraints gives the
\* same result.
C9_Idempotent == pc = "refiltered" => second = result

C9_Witness ==
    /\ pc = "refiltered"
    /\ products = Arr(<<P1, P2>>)
    /\ second = Returned(<<P2>>)

\* a price field that is text but not a number
Malformed(x) ==
    /\ x.t = "str"
    /\ x.v # <<>>
    /\ \E i \in DOMAIN trim(x.v) : ~IsDigit(trim(x.v)[i])

\* C10: a malformed minPrice or maxPrice is ignored: the result is the one
\* the same query gives with that field absent.
C10_MalformedIgnored ==
    Applied =>
        /\ Malformed(query.minPrice) =>
               result = filterProducts(products, [query EXCEPT !.minPrice = Undef])
        /\ Malformed(query.maxPrice) =>
               result = filterProducts(products, [query EXCEPT !.maxPrice = Undef])

Pass(i, r, q) ==
    CASE i = 1 -> TitlePass(r, q)
      [] i = 2 -> SlugPass(r, q)
      [] i = 3 -> MinPricePass(r, q)
      [] i = 4 -> MaxPricePass(r, q)

\* the orders in which the four passes can be applied
Orders == Permutations(1..4)

ApplyInOrder(o, ps, q) ==
    Pass(o[4], Pass(o[3], Pass(o[2], Pass(o[1], SpreadCopy(ps), q), q), q), q)

RECURSIVE IsSubList(_, _)
IsSubList(a, b) ==
    IF a = <<>> THEN TRUE
    ELSE IF b = <<>> THEN FALSE
    ELSE IF Head(a) = Head(b) THEN IsSubList(Tail(a), Tail(b))
    ELSE IsSubList(a, Tail(b))

\* title or slug constraint that narrows: text that is not blank
ActiveText(x) == x.t = "str" /\ trim(x.v) # <<>>

\* the queries that have one more active constraint than q
OneMoreConstraint(q) ==
    {[q EXCEPT !.title = v] : v \in {x \in TitleQueries : Blank(q.title) /\ ActiveText(x)}}
    \cup {[q EXCEPT !.slug = v] : v \in {x \in SlugQueries : Blank(q.slug) /\ ActiveText(x)}}
    \cup {[q EXCEPT !.minPrice = v] :
              v \in {x \in PriceQueries : ~HasBound(q.minPrice) /\ HasBound(x)}}
    \cup {[q EXCEPT !.maxPrice = v] :
              v \in {x \in PriceQueries : ~HasBound(q.maxPrice) /\ HasBound(x)}}

=============================================================================
